---- MODULE Spec2Model ----
(***************************************************************************)
(* Reconciliation handlers of the Jupyter K8s operator                     *)
(* (src/src/jupyter_k8s/controllers/notebook.py) run against a cluster     *)
(* store holding deployments and services.  A handler invocation is a     *)
(* frame; every call it makes to the store is one atomic step.            *)
(***************************************************************************)
EXTENDS Integers, Sequences, FiniteSets, TLC

(***************************************************************************)
(* Untyped values of a spec payload (JSON): strings, null, mappings.       *)
(***************************************************************************)
Str(s) == [type |-> "str", val |-> s]
Null == [type |-> "none"]
Dict(d) == [type |-> "dict", items |-> d]

\* Optional values of the typed objects: None is <<>>, a value x is <<x>>.
None == << >>
Some(x) == << x >>

\* dict.get(k, default)
Get(d, k, default) == IF k \in DOMAIN d THEN d[k] ELSE default

EmptyDict == [k \in {} |-> Null]

(***************************************************************************)
(* Inputs: resource names, namespaces and spec payloads of the events.     *)
(***************************************************************************)
Targets == { <<"nb1", "default">>, <<"nb2", "team">> }

MinimalSpec == [name |-> Str("nb"), image |-> Str("img:a")]
OtherImageSpec == [name |-> Str("nb"), image |-> Str("img:b")]
FullSpec ==
    [name |-> Str("comprehensive"), image |-> Str("img:a"),
     desiredStatus |-> Str("Stopped"), serviceAccountName |-> Str("default"),
     resources |-> Dict([requests |-> [memory |-> "512Mi"],
                         limits |-> [memory |-> "1Gi"]])]
NoImageSpec == [name |-> Str("nb")]
NoNameSpec == [image |-> Str("img:a")]
BadStatusSpec ==
    [name |-> Str("nb"), image |-> Str("img:a"), desiredStatus |-> Str("Paused")]

SpecPayloads ==
    { MinimalSpec, OtherImageSpec, FullSpec, NoImageSpec, NoNameSpec,
      BadStatusSpec, EmptyDict }

\* Payloads for the validator: every field absent or set to one of a few
\* values, strings, null and mappings, of the right and of the wrong type.
FieldValues ==
    [name |-> { Str("nb"), Str("other"), Null, Dict(EmptyDict) },
     image |-> { Str("img:a"), Null },
     desiredStatus |-> { Str("Running"), Str("Stopped"), Str("Paused"), Null },
     serviceAccountName |-> { Str("default"), Null, Dict(EmptyDict) },
     resources |-> { Dict([requests |-> [memory |-> "512Mi"]]), Null, Str("1Gi") }]

ValidationPayloads ==
    UNION { { p \in [K -> UNION { FieldValues[k] : k \in K }] :
                \A k \in K : p[k] \in FieldValues[k] } :
            K \in SUBSET DOMAIN FieldValues }

\* Resource bodies of an update event: old and new, with or without a spec.
BodyOf(payload) == [spec |-> payload]
NoSpecBody == [metadata |-> "labels"]
OldBodies == { BodyOf(MinimalSpec), BodyOf(NoImageSpec), NoSpecBody }
NewBodies == { BodyOf(p) : p \in SpecPayloads } \cup { NoSpecBody }

(***************************************************************************)
(* models.py: JupyterServerSpec and ResourceRequirements.                  *)
(***************************************************************************)
DesiredStatusValues == {"Running", "Stopped"}

IsStr(v) == v.type = "str"
IsNull(v) == v.type = "none"

\* Faulty variant of SpecErrors: desiredStatus declared as a plain optional string.
SpecErrorsStatusUnchecked(payload) ==
      { k \in {"name", "image"} : k \notin DOMAIN payload \/ ~IsStr(payload[k]) }
    \cup
      { k \in {"desiredStatus", "serviceAccountName"} \cap DOMAIN payload :
            ~(IsNull(payload[k]) \/ IsStr(payload[k])) }

\* Faulty variant of SpecErrors: resources declared as Any, so never rejected.
SpecErrorsResourcesUnchecked(payload) ==
      { k \in {"name", "image"} : k \notin DOMAIN payload \/ ~IsStr(payload[k]) }
    \cup
      { k \in {"desiredStatus"} \cap DOMAIN payload :
            ~ \/ IsNull(payload[k])
              \/ IsStr(payload[k]) /\ payload[k].val \in DesiredStatusValues }
    \cup
      { k \in {"serviceAccountName"} \cap DOMAIN payload :
            ~(IsNull(payload[k]) \/ IsStr(payload[k])) }

\* The fields of the payload the model rejects (a ValidationError lists them).
SpecErrors(payload) ==
      { k \in {"name", "image"} : k \notin DOMAIN payload \/ ~IsStr(payload[k]) }
    \cup
      { k \in {"desiredStatus"} \cap DOMAIN payload :
            ~ \/ IsNull(payload[k])
              \/ IsStr(payload[k]) /\ payload[k].val \in DesiredStatusValues }
    \cup
      { k \in {"serviceAccountName"} \cap DOMAIN payload :
            ~(IsNull(payload[k]) \/ IsStr(payload[k])) }
    \cup
      { k \in {"resources"} \cap DOMAIN payload :
            ~(IsNull(payload[k]) \/ payload[k].type = "dict") }

\* ResourceRequirements(**d): absent fields default to None.
ResourceRequirements(d) ==
    [requests |-> IF "requests" \in DOMAIN d THEN Some(d.requests) ELSE None,
     limits |-> IF "limits" \in DOMAIN d THEN Some(d.limits) ELSE None]

OptStr(payload, k, default) ==
    IF k \in DOMAIN payload /\ IsStr(payload[k]) THEN Some(payload[k].val)
    ELSE IF k \in DOMAIN payload THEN None
    ELSE default

\* JupyterServerSpec(**payload) for a payload with no errors.
JupyterServerSpec(payload) ==
    [name |-> payload.name.val,
     image |-> payload.image.val,
     desiredStatus |-> OptStr(payload, "desiredStatus", Some("Running")),
     serviceAccountName |-> OptStr(payload, "serviceAccountName", None),
     resources |->
        IF "resources" \in DOMAIN payload /\ payload.resources.type = "dict"
        THEN Some(ResourceRequirements(payload.resources.items))
        ELSE None]

(***************************************************************************)
(* notebook.py: the resource builders.                                     *)
(***************************************************************************)
JupyterPort == 8888

deployment_name_of(name) == "jupyter-" \o name
service_name_of(name) == "jupyter-" \o name \o "-service"

InstanceLabels(name) == [app |-> "jupyter-server", instance |-> name]

Probe(delay, period) ==
    [http_get |-> [path |-> "/api", port |-> JupyterPort],
     initial_delay_seconds |-> delay, period_seconds |-> period]

\* Faulty variant of create_jupyter_deployment: the deployment is named after
\* the spec's name field, not after the resource name of the event.
create_jupyter_deployment_named_by_spec(name, namespace, jupyter_spec) ==
    LET container ==
            [name |-> "jupyter",
             image |-> jupyter_spec.image,
             ports |-> << [container_port |-> JupyterPort, name |-> "jupyter"] >>,
             env |-> << [name |-> "JUPYTER_ENABLE_LAB", value |-> "yes"],
                        [name |-> "JUPYTER_TOKEN", value |-> ""] >>,
             liveness_probe |-> Probe(30, 10),
             readiness_probe |-> Probe(5, 5),
             resources |-> IF jupyter_spec.resources # None
                           THEN Some(jupyter_spec.resources[1]) ELSE None]
    IN  [api_version |-> "apps/v1",
         kind |-> "Deployment",
         metadata |-> [name |-> deployment_name_of(jupyter_spec.name),
                       namespace |-> namespace,
                       labels |-> InstanceLabels(name)],
         spec |-> [replicas |-> 1,
                   selector |-> [match_labels |-> InstanceLabels(name)],
                   template |-> [metadata |-> [labels |-> InstanceLabels(name)],
                                 spec |-> [containers |-> << container >>]]]]

\* Faulty variant of create_jupyter_deployment: desiredStatus is honoured, a
\* Stopped server gets no replica.
create_jupyter_deployment_honouring_desired_status(name, namespace, jupyter_spec) ==
    LET container ==
            [name |-> "jupyter",
             image |-> jupyter_spec.image,
             ports |-> << [container_port |-> JupyterPort, name |-> "jupyter"] >>,
             env |-> << [name |-> "JUPYTER_ENABLE_LAB", value |-> "yes"],
                        [name |-> "JUPYTER_TOKEN", value |-> ""] >>,
             liveness_probe |-> Probe(30, 10),
             readiness_probe |-> Probe(5, 5),
             resources |-> IF jupyter_spec.resources # None
                           THEN Some(jupyter_spec.resources[1]) ELSE None]
    IN  [api_version |-> "apps/v1",
         kind |-> "Deployment",
         metadata |-> [name |-> deployment_name_of(name),
                       namespace |-> namespace,
                       labels |-> InstanceLabels(name)],
         spec |-> [replicas |-> IF jupyter_spec.desiredStatus = Some("Stopped")
                                THEN 0 ELSE 1,
                   selector |-> [match_labels |-> InstanceLabels(name)],
                   template |-> [metadata |-> [labels |-> InstanceLabels(name)],
                                 spec |-> [containers |-> << container >>]]]]

create_jupyter_deployment(name, namespace, jupyter_spec) ==
    LET resources ==
            IF jupyter_spec.resources # None
            THEN Some(jupyter_spec.resources[1]) ELSE None
        container ==
            [name |-> "jupyter",
             image |-> jupyter_spec.image,
             ports |-> << [container_port |-> JupyterPort, name |-> "jupyter"] >>,
             env |-> << [name |-> "JUPYTER_ENABLE_LAB", value |-> "yes"],
                        [name |-> "JUPYTER_TOKEN", value |-> ""] >>,
             liveness_probe |-> Probe(30, 10),
             readiness_probe |-> Probe(5, 5),
             resources |-> resources]
        template ==
            [metadata |-> [labels |-> InstanceLabels(name)],
             spec |-> [containers |-> << container >>]]
    IN  [api_version |-> "apps/v1",
         kind |-> "Deployment",
         metadata |-> [name |-> deployment_name_of(name),
                       namespace |-> namespace,
                       labels |-> InstanceLabels(name)],
         spec |-> [replicas |-> 1,
                   selector |-> [match_labels |-> InstanceLabels(name)],
                   template |-> template]]

\* Faulty variant of create_jupyter_service: the selector's instance label is the
\* deployment's name, not the resource name.
create_jupyter_service_selecting_deployment_name(name, namespace) ==
    [api_version |-> "v1",
     kind |-> "Service",
     metadata |-> [name |-> service_name_of(name),
                   namespace |-> namespace,
                   labels |-> InstanceLabels(name)],
     spec |-> [selector |-> InstanceLabels(deployment_name_of(name)),
               ports |-> << [port |-> JupyterPort, target_port |-> JupyterPort,
                             name |-> "jupyter"] >>,
               type |-> "ClusterIP"]]

create_jupyter_service(name, namespace) ==
    [api_version |-> "v1",
     kind |-> "Service",
     metadata |-> [name |-> service_name_of(name),
                   namespace |-> namespace,
                   labels |-> InstanceLabels(name)],
     spec |-> [selector |-> InstanceLabels(name),
               ports |-> << [port |-> JupyterPort, target_port |-> JupyterPort,
                             name |-> "jupyter"] >>,
               type |-> "ClusterIP"]]

(***************************************************************************)
(* The cluster store behind apps_v1 and core_v1.  A collection maps        *)
(* <<namespace, name>> to the object stored under it.  A call is atomic    *)
(* and answers with an object, an ApiException or, when the transport      *)
(* breaks, an exception that is no ApiException.                           *)
(***************************************************************************)
NotFound == 404
Conflict == 409
BadRequest == 400
InternalServerError == 500

Ok(metadata) == [tag |-> "ok", metadata |-> metadata]
ApiException(status) == [tag |-> "ApiException", status |-> status]
UnexpectedError == [tag |-> "Exception"]

\* Failures the store may answer any call with, whatever it holds.
StoreFaults ==
    { ApiException(BadRequest), ApiException(InternalServerError), UnexpectedError }

\* How many names other than the requested one the store may report back.
MaxForeignNames == 1

\* The metadata of the object a successful call returns.
ResponseMetadata(requested) ==
    { None, Some([name |-> requested]) }
    \cup { Some([name |-> "generated" \o ToString(i) \o "-" \o requested]) :
                i \in 1..MaxForeignNames }

CreateOutcomes(coll, namespace, body) ==
    ( IF <<namespace, body.metadata.name>> \in DOMAIN coll
      THEN { ApiException(Conflict) }
      ELSE { Ok(m) : m \in ResponseMetadata(body.metadata.name) } )
    \cup StoreFaults

StoreAfterCreate(coll, namespace, body, outcome) ==
    IF outcome.tag = "ok"
    THEN coll @@ (<<namespace, body.metadata.name>> :> body)
    ELSE coll

PatchOutcomes(coll, name, namespace) ==
    ( IF <<namespace, name>> \in DOMAIN coll
      THEN { Ok(m) : m \in ResponseMetadata(name) }
      ELSE { ApiException(NotFound) } )
    \cup StoreFaults

\* Key-wise merge of two mappings; the patch wins.
MergeMap(old, new) ==
    [k \in DOMAIN old \cup DOMAIN new |-> IF k \in DOMAIN new THEN new[k] ELSE old[k]]

MergeOptMap(old, new) ==
    IF new = None THEN old
    ELSE IF old = None THEN new
    ELSE Some(MergeMap(old[1], new[1]))

\* Strategic merge of a container's resources: fields the patch leaves unset
\* (None is not serialised) keep the stored value.
MergeResources(old, new) ==
    IF new = None THEN old
    ELSE IF old = None THEN new
    ELSE Some([requests |-> MergeOptMap(old[1].requests, new[1].requests),
               limits |-> MergeOptMap(old[1].limits, new[1].limits)])

MergeContainer(old, new) ==
    [new EXCEPT !.resources = MergeResources(old.resources, new.resources)]

StrategicMergePatch(obj, body) ==
    [body EXCEPT !.spec.template.spec.containers =
        << MergeContainer(obj.spec.template.spec.containers[1], @[1]) >>]

StoreAfterPatch(coll, name, namespace, body, outcome) ==
    IF outcome.tag = "ok"
    THEN [coll EXCEPT ![<<namespace, name>>] = StrategicMergePatch(@, body)]
    ELSE coll

DeleteOutcomes(coll, name, namespace) ==
    ( IF <<namespace, name>> \in DOMAIN coll
      THEN { Ok(None) }
      ELSE { ApiException(NotFound) } )
    \cup StoreFaults

StoreAfterDelete(coll, name, namespace, outcome) ==
    IF outcome.tag = "ok"
    THEN [k \in DOMAIN coll \ { <<namespace, name>> } |-> coll[k]]
    ELSE coll

(***************************************************************************)
(* State: the two collections of the store, one frame per worker, and the *)
(* requests the HTTP API has served with the answer to the last of them.  *)
(***************************************************************************)
VARIABLES deployments, services, frames, http

vars == << deployments, services, frames, http >>

Workers == {1}

Pending == [kind |-> "pending"]
Return(value) == [kind |-> "return", value |-> value]
Raise(exception) == [kind |-> "raise", exception |-> exception]

\* What the substrate remembers of the invocation that ran last: the handler
\* and its target when every call got the store's regular answer, nothing
\* when a fault was injected.
NoPrev == [handler |-> "none"]
Regular(outcome) ==
    \/ outcome.tag = "ok"
    \/ outcome.tag = "ApiException" /\ outcome.status \in {NotFound, Conflict}
Summary(f) ==
    IF f.pc = "done" /\ \A i \in DOMAIN f.calls : Regular(f.calls[i].outcome)
    THEN [handler |-> f.handler, name |-> f.name, namespace |-> f.namespace,
          result |-> f.result.kind]
    ELSE NoPrev

IdleFrame ==
    [pc |-> "idle", handler |-> "none", name |-> "", namespace |-> "",
     spec |-> EmptyDict, old |-> NoSpecBody, new |-> NoSpecBody,
     deployment_name |-> "", service_name |-> "",
     calls |-> << >>, log |-> << >>, result |-> Pending, prev |-> NoPrev]

\* The frame of a handler the substrate has just invoked.
Invoke(last, handler, spec, name, namespace, old, new) ==
    [IdleFrame EXCEPT !.pc = "running", !.handler = handler, !.name = name,
                      !.namespace = namespace, !.spec = spec, !.old = old,
                      !.new = new, !.prev = last.prev]

Log(f, level, msg) ==
    [f EXCEPT !.log = Append(@, [level |-> level, msg |-> msg])]

Called(f, api, op, name, namespace, body, outcome) ==
    [f EXCEPT !.calls = Append(@, [api |-> api, op |-> op, name |-> name,
                                   namespace |-> namespace, body |-> body,
                                   outcome |-> outcome])]

Finish(f, result) == [f EXCEPT !.pc = "done", !.result = result]

StatusResult(status) == Return(Some([status |-> status]))

ValidationError(payload) == [exc |-> "ValidationError", fields |-> SpecErrors(payload)]

(***************************************************************************)
(* handle_create_notebook                                                  *)
(***************************************************************************)
InvalidSpecStatus(e) ==
    [phase |-> "Failed", error |-> e, message |-> "Invalid spec"]

CreateFailedStatus(e) ==
    [phase |-> "Failed", error |-> e, message |-> "Failed to create resources"]

PortForward(service_name, namespace) ==
    "kubectl port-forward service/" \o service_name \o " 8888:8888 -n " \o namespace

CreateRunningStatus(deployment_name, service_name, namespace) ==
    [phase |-> "Running",
     deploymentName |-> deployment_name,
     serviceName |-> service_name,
     accessInstructions |->
        [portForward |-> PortForward(service_name, namespace),
         url |-> "http://localhost:8888"]]

\* Faulty variant of handle_create_notebook: the service is submitted first.
handle_create_notebook_service_first(f) ==
    IF SpecErrors(f.spec) # {}
    THEN Finish(Log(f, "error", "Invalid spec for " \o f.name),
                StatusResult(InvalidSpecStatus(ValidationError(f.spec))))
    ELSE [Log(f, "info", "Creating service: jupyter-" \o f.name \o "-service")
            EXCEPT !.pc = "create_service"]

\* Lines 24-40: validate, then build the deployment.
handle_create_notebook(f) ==
    IF SpecErrors(f.spec) # {}
    THEN Finish(Log(f, "error", "Invalid spec for " \o f.name),
                StatusResult(InvalidSpecStatus(ValidationError(f.spec))))
    ELSE [Log(f, "info", "Creating deployment: jupyter-" \o f.name)
            EXCEPT !.pc = "create_deployment"]

\* Faulty variant of after_create_deployment: a failed deployment creation is logged
\* and the service is submitted all the same.
after_create_deployment_ignoring_failure(f, outcome) ==
    CASE outcome.tag = "Exception" -> Finish(f, Raise(outcome))
      [] OTHER ->
            [Log(f, "info", "Creating service: jupyter-" \o f.name \o "-service")
                EXCEPT !.deployment_name = "jupyter-" \o f.name,
                       !.pc = "create_service"]

\* Faulty variant of after_create_deployment: a server error makes the handler
\* submit the deployment again.
after_create_deployment_retrying(f, outcome) ==
    CASE outcome.tag = "ok" ->
            LET deployment_name ==
                    IF outcome.metadata # None THEN outcome.metadata[1].name
                    ELSE "jupyter-" \o f.name
            IN  [Log(Log(f, "info", "Deployment created successfully: " \o deployment_name),
                     "info", "Creating service: jupyter-" \o f.name \o "-service")
                    EXCEPT !.deployment_name = deployment_name,
                           !.pc = "create_service"]
      [] outcome.tag = "ApiException" /\ outcome.status = InternalServerError ->
            Log(f, "warning", "Retrying deployment creation")
      [] outcome.tag = "ApiException" /\ outcome.status # InternalServerError ->
            Finish(Log(f, "error", "Failed to create Jupyter server"),
                   StatusResult(CreateFailedStatus(outcome)))
      [] OTHER -> Finish(f, Raise(outcome))

\* Faulty variant of after_create_deployment: a conflict counts as created, and
\* the handler goes on to the service.
after_create_deployment_accepting_conflict(f, outcome) ==
    CASE outcome.tag = "ok" ->
            LET deployment_name ==
                    IF outcome.metadata # None THEN outcome.metadata[1].name
                    ELSE "jupyter-" \o f.name
            IN  [Log(Log(f, "info", "Deployment created successfully: " \o deployment_name),
                     "info", "Creating service: jupyter-" \o f.name \o "-service")
                    EXCEPT !.deployment_name = deployment_name,
                           !.pc = "create_service"]
      [] outcome.tag = "ApiException" /\ outcome.status = Conflict ->
            [Log(f, "info", "Creating service: jupyter-" \o f.name \o "-service")
                EXCEPT !.deployment_name = "jupyter-" \o f.name,
                       !.pc = "create_service"]
      [] outcome.tag = "ApiException" /\ outcome.status # Conflict ->
            Finish(Log(f, "error", "Failed to create Jupyter server"),
                   StatusResult(CreateFailedStatus(outcome)))
      [] OTHER -> Finish(f, Raise(outcome))

\* Lines 42-48 and 67-75: the answer to create_namespaced_deployment.
after_create_deployment(f, outcome) ==
    CASE outcome.tag = "ok" ->
            LET deployment_name ==
                    IF outcome.metadata # None THEN outcome.metadata[1].name
                    ELSE "jupyter-" \o f.name
            IN  [Log(Log(f, "info", "Deployment created successfully: " \o deployment_name),
                     "info", "Creating service: jupyter-" \o f.name \o "-service")
                    EXCEPT !.deployment_name = deployment_name,
                           !.pc = "create_service"]
      [] outcome.tag = "ApiException" ->
            Finish(Log(f, "error", "Failed to create Jupyter server"),
                   StatusResult(CreateFailedStatus(outcome)))
      [] OTHER -> Finish(f, Raise(outcome))

\* Faulty variant of after_create_service: a failed service creation rolls the
\* deployment back (a compensating deletion).
after_create_service_with_rollback(f, outcome) ==
    CASE outcome.tag = "ok" ->
            Finish(f, StatusResult(CreateRunningStatus(f.deployment_name,
                                       "jupyter-" \o f.name \o "-service", f.namespace)))
      [] outcome.tag = "ApiException" ->
            [f EXCEPT !.deployment_name = "jupyter-" \o f.name,
                      !.service_name = "jupyter-" \o f.name \o "-service",
                      !.pc = "delete_deployment"]
      [] OTHER -> Finish(f, Raise(outcome))

\* Lines 50-65 and 67-75: the answer to create_namespaced_service.
after_create_service(f, outcome) ==
    CASE outcome.tag = "ok" ->
            LET service_name ==
                    IF outcome.metadata # None THEN outcome.metadata[1].name
                    ELSE "jupyter-" \o f.name \o "-service"
            IN  Finish([Log(f, "info", "Service created successfully: " \o service_name)
                            EXCEPT !.service_name = service_name],
                       StatusResult(CreateRunningStatus(f.deployment_name, service_name,
                                                        f.namespace)))
      [] outcome.tag = "ApiException" ->
            Finish(Log(f, "error", "Failed to create Jupyter server"),
                   StatusResult(CreateFailedStatus(outcome)))
      [] OTHER -> Finish(f, Raise(outcome))

(***************************************************************************)
(* handle_delete_notebook                                                  *)
(***************************************************************************)
\* Faulty variant of handle_delete_notebook: the service name is derived with
\* another suffix than the one create_jupyter_service uses.
handle_delete_notebook_other_service_suffix(f) ==
    [f EXCEPT !.deployment_name = "jupyter-" \o f.name,
              !.service_name = "jupyter-" \o f.name \o "-svc",
              !.pc = "delete_deployment"]

\* Lines 81-85.
handle_delete_notebook(f) ==
    [f EXCEPT !.deployment_name = "jupyter-" \o f.name,
              !.service_name = "jupyter-" \o f.name \o "-service",
              !.pc = "delete_deployment"]

\* Faulty variant of delete_api_exception: every ApiException is a warning, 404 too.
delete_api_exception_warns_always(f, e, what) ==
    Log(f, "warning", "Failed to delete " \o what)

\* Lines 89-91 and 97-99: except ApiException, around one delete call.
delete_api_exception(f, e, what) ==
    IF e.status # NotFound
    THEN Log(f, "warning", "Failed to delete " \o what)
    ELSE f

\* Faulty variant of delete_unexpected: no outer except, the exception leaves the handler.
delete_unexpected_propagates(f, e) == Finish(f, Raise(e))

\* Lines 101-102: the handler's outer except Exception.
delete_unexpected(f, e) ==
    Finish(Log(f, "error", "Failed to delete Jupyter server resources"), Return(None))

\* Faulty variant of after_delete_deployment: one try block around both deletions, so
\* an ApiException of the first skips the second.
after_delete_deployment_aborting(f, outcome) ==
    CASE outcome.tag = "ok" ->
            [Log(f, "info", "Deployment " \o f.deployment_name \o " deleted successfully")
                EXCEPT !.pc = "delete_service"]
      [] outcome.tag = "ApiException" ->
            Finish(delete_api_exception(f, outcome, "deployment " \o f.deployment_name),
                   Return(None))
      [] OTHER -> delete_unexpected(f, outcome)

\* Faulty variant of after_delete_deployment: a deployment that is not found
\* ends the deletion, the service is taken to be gone as well.
after_delete_deployment_stopping_when_absent(f, outcome) ==
    CASE outcome.tag = "ok" ->
            [Log(f, "info", "Deployment " \o f.deployment_name \o " deleted successfully")
                EXCEPT !.pc = "delete_service"]
      [] outcome.tag = "ApiException" /\ outcome.status = NotFound ->
            Finish(f, Return(None))
      [] outcome.tag = "ApiException" /\ outcome.status # NotFound ->
            [delete_api_exception(f, outcome, "deployment " \o f.deployment_name)
                EXCEPT !.pc = "delete_service"]
      [] OTHER -> delete_unexpected(f, outcome)

\* Lines 86-91: the answer to delete_namespaced_deployment.
after_delete_deployment(f, outcome) ==
    CASE outcome.tag = "ok" ->
            [Log(f, "info", "Deployment " \o f.deployment_name \o " deleted successfully")
                EXCEPT !.pc = "delete_service"]
      [] outcome.tag = "ApiException" ->
            [delete_api_exception(f, outcome, "deployment " \o f.deployment_name)
                EXCEPT !.pc = "delete_service"]
      [] OTHER -> delete_unexpected(f, outcome)

\* Lines 94-99: the answer to delete_namespaced_service.
after_delete_service(f, outcome) ==
    CASE outcome.tag = "ok" ->
            Finish(Log(f, "info", "Service " \o f.service_name \o " deleted successfully"),
                   Return(None))
      [] outcome.tag = "ApiException" ->
            Finish(delete_api_exception(f, outcome, "service " \o f.service_name),
                   Return(None))
      [] OTHER -> delete_unexpected(f, outcome)

(***************************************************************************)
(* handle_update_notebook                                                  *)
(***************************************************************************)
\* Faulty variant of UpdateRunningStatus: the service name derived from the
\* deployment name handed in.
UpdateRunningStatusDerived(deployment_name, name) ==
    [phase |-> "Running",
     deploymentName |-> deployment_name,
     serviceName |-> deployment_name]

UpdateRunningStatus(deployment_name, name) ==
    [phase |-> "Running",
     deploymentName |-> deployment_name,
     serviceName |-> "jupyter-" \o name \o "-service"]

UpdateFailedStatus(e) == [phase |-> "Failed", error |-> e]

\* Faulty variant of handle_update_notebook: validation runs before change detection.
handle_update_notebook_validating_first(f) ==
    LET old_spec == Get(f.old, "spec", EmptyDict)
        new_spec == Get(f.new, "spec", EmptyDict)
    IN  IF SpecErrors(f.spec) # {}
        THEN Finish(Log(f, "error", "Invalid spec for " \o f.name),
                    StatusResult(InvalidSpecStatus(ValidationError(f.spec))))
        ELSE IF old_spec = new_spec
        THEN Finish(Log(f, "info", "No spec changes detected for " \o f.name
                                   \o ", skipping update"),
                    Return(None))
        ELSE [Log(f, "info", "Updating deployment: jupyter-" \o f.name)
                EXCEPT !.deployment_name = "jupyter-" \o f.name,
                       !.pc = "patch_deployment"]

\* Lines 110-136: change detection, validation, the deployment rebuilt.
handle_update_notebook(f) ==
    LET old_spec == Get(f.old, "spec", EmptyDict)
        new_spec == Get(f.new, "spec", EmptyDict)
    IN  IF old_spec = new_spec
        THEN Finish(Log(f, "info", "No spec changes detected for " \o f.name
                                   \o ", skipping update"),
                    Return(None))
        ELSE IF SpecErrors(f.spec) # {}
        THEN Finish(Log(f, "error", "Invalid spec for " \o f.name),
                    StatusResult(InvalidSpecStatus(ValidationError(f.spec))))
        ELSE [Log(f, "info", "Updating deployment: jupyter-" \o f.name)
                EXCEPT !.deployment_name = "jupyter-" \o f.name,
                       !.pc = "patch_deployment"]

\* Faulty variant of after_patch_deployment: a deployment that is not found is
\* created, and its service after it.
after_patch_deployment_creating_when_missing(f, outcome) ==
    CASE outcome.tag = "ok" ->
            Finish(Log(f, "info", "Deployment updated successfully: " \o f.deployment_name),
                   StatusResult(UpdateRunningStatus(f.deployment_name, f.name)))
      [] outcome.tag = "ApiException" /\ outcome.status = NotFound ->
            [Log(f, "info", "Creating deployment: jupyter-" \o f.name)
                EXCEPT !.pc = "create_deployment"]
      [] outcome.tag = "ApiException" /\ outcome.status # NotFound ->
            Finish(Log(f, "error", "Failed to update Jupyter server"),
                   StatusResult(UpdateFailedStatus(outcome)))
      [] OTHER -> Finish(f, Raise(outcome))

\* Lines 138-159: the answer to patch_namespaced_deployment.
after_patch_deployment(f, outcome) ==
    CASE outcome.tag = "ok" ->
            LET deployment_name_result ==
                    IF outcome.metadata # None THEN outcome.metadata[1].name
                    ELSE f.deployment_name
            IN  Finish(Log(f, "info", "Deployment updated successfully: "
                                      \o deployment_name_result),
                       StatusResult(UpdateRunningStatus(f.deployment_name, f.name)))
      [] outcome.tag = "ApiException" ->
            Finish(Log(f, "error", "Failed to update Jupyter server"),
                   StatusResult(UpdateFailedStatus(outcome)))
      [] OTHER -> Finish(f, Raise(outcome))

(***************************************************************************)
(* The event substrate (the kopf handlers, lines 162-177) and the steps.   *)
(***************************************************************************)
Free(w) == frames[w].pc = "idle"

\* The handler has returned (or raised) to the substrate.
Collect(w) ==
    /\ frames[w].pc = "done"
    /\ frames' = [frames EXCEPT ![w] = [IdleFrame EXCEPT !.prev = Summary(frames[w])]]
    /\ UNCHANGED << deployments, services, http >>

\* create_notebook(spec, name, namespace, meta), the spec being one of payloads.
CreateEventWith(w, payloads) ==
    /\ Free(w)
    /\ \E t \in Targets, spec \in payloads :
          frames' = [frames EXCEPT ![w] =
                        handle_create_notebook(
                            Invoke(@, "create", spec, t[1], t[2], NoSpecBody, NoSpecBody))]
    /\ UNCHANGED << deployments, services, http >>

CreateEvent(w) == CreateEventWith(w, SpecPayloads)

\* update_notebook(spec, name, namespace, old, new): spec is the new body's spec.
UpdateEventWith(w, olds, news) ==
    /\ Free(w)
    /\ \E t \in Targets, old \in olds, new \in news :
          frames' = [frames EXCEPT ![w] =
                        handle_update_notebook(
                            Invoke(@, "update", Get(new, "spec", EmptyDict),
                                   t[1], t[2], old, new))]
    /\ UNCHANGED << deployments, services, http >>

UpdateEvent(w) == UpdateEventWith(w, OldBodies, NewBodies)

\* delete_notebook(name, namespace)
DeleteEvent(w) ==
    /\ Free(w)
    /\ \E t \in Targets :
          frames' = [frames EXCEPT ![w] =
                        handle_delete_notebook(
                            Invoke(@, "delete", EmptyDict, t[1], t[2], NoSpecBody, NoSpecBody))]
    /\ UNCHANGED << deployments, services, http >>

\* apps_v1.create_namespaced_deployment(namespace, body), line 42.
CreateDeployment(w) ==
    /\ frames[w].pc = "create_deployment"
    /\ LET f == frames[w]
           body == create_jupyter_deployment(f.name, f.namespace, JupyterServerSpec(f.spec))
       IN  \E o \in CreateOutcomes(deployments, f.namespace, body) :
              /\ deployments' = StoreAfterCreate(deployments, f.namespace, body, o)
              /\ frames' = [frames EXCEPT ![w] =
                    after_create_deployment(
                        Called(f, "apps_v1", "create_namespaced_deployment",
                               body.metadata.name, f.namespace, Some(body), o), o)]
    /\ UNCHANGED << services, http >>

\* Faulty variant of CreateService: the service is built for the spec's name field.
CreateServiceForSpecName(w) ==
    /\ frames[w].pc = "create_service"
    /\ LET f == frames[w]
           body == create_jupyter_service(JupyterServerSpec(f.spec).name, f.namespace)
       IN  \E o \in CreateOutcomes(services, f.namespace, body) :
              /\ services' = StoreAfterCreate(services, f.namespace, body, o)
              /\ frames' = [frames EXCEPT ![w] =
                    after_create_service(
                        Called(f, "core_v1", "create_namespaced_service",
                               body.metadata.name, f.namespace, Some(body), o), o)]
    /\ UNCHANGED << deployments, http >>

\* core_v1.create_namespaced_service(namespace, body), line 50.
CreateService(w) ==
    /\ frames[w].pc = "create_service"
    /\ LET f == frames[w]
           body == create_jupyter_service(f.name, f.namespace)
       IN  \E o \in CreateOutcomes(services, f.namespace, body) :
              /\ services' = StoreAfterCreate(services, f.namespace, body, o)
              /\ frames' = [frames EXCEPT ![w] =
                    after_create_service(
                        Called(f, "core_v1", "create_namespaced_service",
                               body.metadata.name, f.namespace, Some(body), o), o)]
    /\ UNCHANGED << deployments, http >>

\* apps_v1.patch_namespaced_deployment(name, namespace, body), lines 138-140.
PatchDeployment(w) ==
    /\ frames[w].pc = "patch_deployment"
    /\ LET f == frames[w]
           body == create_jupyter_deployment(f.name, f.namespace, JupyterServerSpec(f.spec))
       IN  \E o \in PatchOutcomes(deployments, f.deployment_name, f.namespace) :
              /\ deployments' = StoreAfterPatch(deployments, f.deployment_name,
                                                f.namespace, body, o)
              /\ frames' = [frames EXCEPT ![w] =
                    after_patch_deployment(
                        Called(f, "apps_v1", "patch_namespaced_deployment",
                               f.deployment_name, f.namespace, Some(body), o), o)]
    /\ UNCHANGED << services, http >>

\* Faulty variant of DeleteDeployment: the namespace of the event is dropped and
\* the deployment is deleted in the namespace "default".
DeleteDeploymentInDefaultNamespace(w) ==
    /\ frames[w].pc = "delete_deployment"
    /\ LET f == frames[w]
       IN  \E o \in DeleteOutcomes(deployments, f.deployment_name, "default") :
              /\ deployments' = StoreAfterDelete(deployments, f.deployment_name,
                                                 "default", o)
              /\ frames' = [frames EXCEPT ![w] =
                    after_delete_deployment(
                        Called(f, "apps_v1", "delete_namespaced_deployment",
                               f.deployment_name, "default", None, o), o)]
    /\ UNCHANGED << services, http >>

\* apps_v1.delete_namespaced_deployment(name, namespace), line 87.
DeleteDeployment(w) ==
    /\ frames[w].pc = "delete_deployment"
    /\ LET f == frames[w]
       IN  \E o \in DeleteOutcomes(deployments, f.deployment_name, f.namespace) :
              /\ deployments' = StoreAfterDelete(deployments, f.deployment_name,
                                                 f.namespace, o)
              /\ frames' = [frames EXCEPT ![w] =
                    after_delete_deployment(
                        Called(f, "apps_v1", "delete_namespaced_deployment",
                               f.deployment_name, f.namespace, None, o), o)]
    /\ UNCHANGED << services, http >>

\* core_v1.delete_namespaced_service(name, namespace), line 95.
DeleteService(w) ==
    /\ frames[w].pc = "delete_service"
    /\ LET f == frames[w]
       IN  \E o \in DeleteOutcomes(services, f.service_name, f.namespace) :
              /\ services' = StoreAfterDelete(services, f.service_name, f.namespace, o)
              /\ frames' = [frames EXCEPT ![w] =
                    after_delete_service(
                        Called(f, "core_v1", "delete_namespaced_service",
                               f.service_name, f.namespace, None, o), o)]
    /\ UNCHANGED << deployments, http >>

(***************************************************************************)
(* api/router.py and models/notebook.py: the HTTP query API.               *)
(***************************************************************************)
NotebookNames == { "sample-notebook", "new-notebook", "non-existent" }

\* datetime.now(): whatever the clock reads when the request is served.
Timestamps == { "t1", "t2" }

NotebookResponse(name, created_at, status, image) ==
    [name |-> name, namespace |-> "default", created_at |-> created_at,
     status |-> status, image |-> image]

HttpResponse(status_code, body) == [status_code |-> status_code, body |-> body]
HTTPException(status_code, detail) ==
    HttpResponse(status_code, [detail |-> detail])
NoResponse == HttpResponse(0, << >>)

\* GET /notebooks
list_notebooks(now) ==
    HttpResponse(200,
        << NotebookResponse("sample-notebook", now, "Running",
                            "jupyter/minimal-notebook:latest") >>)

\* Faulty variant of get_notebook: the API remembers deletions, and a notebook
\* a DELETE was served for is gone.
get_notebook_remembering_deletes(name, now) ==
    IF \/ name # "sample-notebook"
       \/ \E i \in DOMAIN http.requests :
             http.requests[i].method = "DELETE" /\ http.requests[i].name = name
    THEN HTTPException(404, "Notebook not found")
    ELSE HttpResponse(200,
            NotebookResponse(name, now, "Running", "jupyter/minimal-notebook:latest"))

\* GET /notebooks/{name}
get_notebook(name, now) ==
    IF name # "sample-notebook"
    THEN HTTPException(404, "Notebook not found")
    ELSE HttpResponse(200,
            NotebookResponse(name, now, "Running", "jupyter/minimal-notebook:latest"))

\* POST /notebooks: answers 201 and creates nothing.
create_notebook(notebook, now) ==
    HttpResponse(201,
        NotebookResponse(notebook.name, now, "Creating",
                         "jupyter/minimal-notebook:latest"))

\* DELETE /notebooks/{name}
delete_notebook(name) ==
    IF name # "sample-notebook"
    THEN HTTPException(404, "Notebook not found")
    ELSE HttpResponse(204, << >>)

MaxRequests == 3

\* One request served by the API: it is appended to the requests served and
\* its answer becomes the last response.
Served(request, response) ==
    /\ Len(http.requests) < MaxRequests
    /\ http' = [requests |-> Append(http.requests, request), response |-> response]
    /\ UNCHANGED << deployments, services, frames >>

ListRequest ==
    \E now \in Timestamps :
        Served([method |-> "GET", path |-> "/notebooks", name |-> ""],
               list_notebooks(now))

GetRequest ==
    \E name \in NotebookNames, now \in Timestamps :
        Served([method |-> "GET", path |-> "/notebooks/{name}", name |-> name],
               get_notebook(name, now))

PostRequest ==
    \E name \in NotebookNames, now \in Timestamps :
        Served([method |-> "POST", path |-> "/notebooks", name |-> name],
               create_notebook([name |-> name], now))

DeleteRequest ==
    \E name \in NotebookNames :
        Served([method |-> "DELETE", path |-> "/notebooks/{name}", name |-> name],
               delete_notebook(name))

\* What the substrate has seen of the invocation it delivers once more: the
\* handler's result and the store as that invocation left it.
Delivered(f) ==
    [handler |-> f.handler, name |-> f.name, namespace |-> f.namespace,
     result |-> f.result, deployments |-> deployments, services |-> services]

\* The substrate delivers the create event of the invocation that has ended
\* once more, with the same spec, name and namespace.
Redeliver(w) ==
    /\ frames[w].pc = "done"
    /\ frames[w].handler = "create"
    /\ frames' = [frames EXCEPT ![w] =
                    handle_create_notebook(
                        [Invoke(@, "create", @.spec, @.name, @.namespace,
                                NoSpecBody, NoSpecBody)
                            EXCEPT !.prev = Delivered(frames[w])])]
    /\ UNCHANGED << deployments, services, http >>

\* The substrate delivers the delete event of the resource whose create has
\* just ended.
DeleteFollows(w) ==
    /\ frames[w].pc = "done"
    /\ frames[w].handler = "create"
    /\ frames' = [frames EXCEPT ![w] =
                    handle_delete_notebook(
                        [Invoke(@, "delete", EmptyDict, @.name, @.namespace,
                                NoSpecBody, NoSpecBody)
                            EXCEPT !.prev = Delivered(frames[w])])]
    /\ UNCHANGED << deployments, services, http >>

Init ==
    /\ deployments = << >>
    /\ services = << >>
    /\ frames = [w \in Workers |-> IdleFrame]
    /\ http = [requests |-> << >>, response |-> NoResponse]

Next ==
    \E w \in Workers :
        \/ CreateEvent(w)
        \/ UpdateEvent(w)
        \/ DeleteEvent(w)
        \/ CreateDeployment(w)
        \/ CreateService(w)
        \/ PatchDeployment(w)
        \/ DeleteDeployment(w)
        \/ DeleteService(w)
        \/ Collect(w)

Spec == Init /\ [][Next]_vars

\* Two workers, each handling one event, their store calls interleaved in any
\* order: kopf dispatches events to handlers that run in parallel, and every
\* call to the store is atomic.
ConcurrentWorkers == {1, 2}
ConcurrentPayloads == { MinimalSpec, OtherImageSpec }

InitConcurrent ==
    /\ deployments = << >>
    /\ services = << >>
    /\ frames = [w \in ConcurrentWorkers |-> IdleFrame]
    /\ http = [requests |-> << >>, response |-> NoResponse]

NextConcurrent ==
    \E w \in ConcurrentWorkers :
        \/ CreateEventWith(w, ConcurrentPayloads)
        \/ UpdateEventWith(w, { BodyOf(MinimalSpec) }, { BodyOf(OtherImageSpec) })
        \/ DeleteEvent(w)
        \/ CreateDeployment(w)
        \/ CreateService(w)
        \/ PatchDeployment(w)
        \/ DeleteDeployment(w)
        \/ DeleteService(w)

SpecConcurrent == InitConcurrent /\ [][NextConcurrent]_vars

\* A create event and the delete event of the same resource after it, the
\* handlers run one at a time.
NextRoundTrip ==
    \E w \in Workers :
        \/ CreateEvent(w)
        \/ CreateDeployment(w)
        \/ CreateService(w)
        \/ DeleteFollows(w)
        \/ DeleteDeployment(w)
        \/ DeleteService(w)

SpecRoundTrip == Init /\ [][NextRoundTrip]_vars

\* The HTTP API alone: it shares no state with the handlers.
NextApi ==
    \/ ListRequest
    \/ GetRequest
    \/ PostRequest
    \/ DeleteRequest

SpecApi == Init /\ [][NextApi]_vars

\* One create event with any payload: the validator and what follows it.
NextValidate ==
    \E w \in Workers :
        \/ CreateEventWith(w, ValidationPayloads)
        \/ CreateDeployment(w)
        \/ CreateService(w)

SpecValidate == Init /\ [][NextValidate]_vars

\* A create event and its redeliveries.  The substrate keeps redelivering, the
\* store answers every call, and a call that keeps being made gets the
\* store's regular answer (an object, or a conflict) again and again.
RegularlyAnswered(w) ==
    /\ CreateDeployment(w) \/ CreateService(w)
    /\ Regular(frames'[w].calls[Len(frames'[w].calls)].outcome)

NextRedeliver ==
    \E w \in Workers :
        \/ CreateEvent(w)
        \/ Redeliver(w)
        \/ CreateDeployment(w)
        \/ CreateService(w)

SpecRedeliver ==
    /\ Init
    /\ [][NextRedeliver]_vars
    /\ \A w \in Workers :
          /\ WF_vars(Redeliver(w))
          /\ WF_vars(CreateDeployment(w))
          /\ WF_vars(CreateService(w))
          /\ SF_vars(RegularlyAnswered(w))

(***************************************************************************)
(* Properties.                                                             *)
(***************************************************************************)
CallCount(f, op) == Cardinality({ i \in DOMAIN f.calls : f.calls[i].op = op })
LogCount(f, level) == Cardinality({ i \in DOMAIN f.log : f.log[i].level = level })
Failures(f, tag) ==
    { i \in DOMAIN f.calls : f.calls[i].outcome.tag = tag }
ReturnedStatus(f) == f.result.kind = "return" /\ f.result.value # None
StatusOf(f) == f.result.value[1].status
ReturnedNone(f) == f.result.kind = "return" /\ f.result.value = None
SpecsDiffer(f) == Get(f.old, "spec", EmptyDict) # Get(f.new, "spec", EmptyDict)

\* A payload the claims call invalid: name or image missing, or a
\* desiredStatus outside Running, Stopped.
InvalidPayload(p) ==
    \/ "name" \notin DOMAIN p
    \/ "image" \notin DOMAIN p
    \/ "desiredStatus" \in DOMAIN p
         /\ p.desiredStatus \notin { Str("Running"), Str("Stopped"), Null }

\* C1: validation precedes mutation.  A create, or an update whose old and new
\* specs differ, with an invalid spec payload has returned phase Failed with
\* message "Invalid spec" and has issued no call to the store.
C1_ValidationPrecedesMutation ==
    \A w \in Workers :
        LET f == frames[w]
        IN  ( /\ InvalidPayload(f.spec)
              /\ \/ f.handler = "create"
                 \/ f.handler = "update" /\ SpecsDiffer(f) )
            => /\ f.pc = "done"
               /\ f.calls = << >>
               /\ ReturnedStatus(f)
               /\ StatusOf(f).phase = "Failed"
               /\ StatusOf(f).message = "Invalid spec"

C1_Witness ==
    \E w \in Workers :
        /\ frames[w].handler = "update"
        /\ frames[w].pc = "done"
        /\ SpecsDiffer(frames[w])
        /\ "image" \notin DOMAIN frames[w].spec
        /\ deployments # << >>

\* C2: failure isolation on create.  Once create_namespaced_deployment has
\* failed with an ApiException the invocation is over: the service creation
\* is never attempted and the result is phase Failed with message
\* "Failed to create resources".
C2_DeploymentFailureIsolation ==
    \A w \in Workers :
        LET f == frames[w]
        IN  ( /\ f.handler = "create"
              /\ \E i \in Failures(f, "ApiException") :
                    f.calls[i].op = "create_namespaced_deployment" )
            => /\ f.pc = "done"
               /\ CallCount(f, "create_namespaced_service") = 0
               /\ ReturnedStatus(f)
               /\ StatusOf(f).phase = "Failed"
               /\ StatusOf(f).message = "Failed to create resources"

C2_Witness ==
    \E w \in Workers :
        /\ frames[w].handler = "create"
        /\ frames[w].pc = "done"
        /\ Len(frames[w].calls) = 1
        /\ frames[w].calls[1].outcome = ApiException(Conflict)

\* C3: create ordering.  The first call of a create is the deployment
\* creation and a service creation comes second, after the deployment creation
\* returned an object; when both succeed there is one call of each and the
\* result is phase Running with url http://localhost:8888 and a port-forward
\* command naming the reported service and the event's namespace.
C3_CreateOrdering ==
    \A w \in Workers :
        LET f == frames[w]
        IN  f.handler = "create" =>
              /\ \A i \in DOMAIN f.calls :
                    /\ f.calls[i].op = "create_namespaced_deployment" => i = 1
                    /\ f.calls[i].op = "create_namespaced_service" =>
                          /\ i = 2
                          /\ f.calls[1].op = "create_namespaced_deployment"
                          /\ f.calls[1].outcome.tag = "ok"
              /\ ( /\ f.pc = "done"
                   /\ Len(f.calls) = 2
                   /\ f.calls[2].outcome.tag = "ok" )
                 => /\ CallCount(f, "create_namespaced_deployment") = 1
                    /\ CallCount(f, "create_namespaced_service") = 1
                    /\ ReturnedStatus(f)
                    /\ StatusOf(f).phase = "Running"
                    /\ StatusOf(f).accessInstructions.url = "http://localhost:8888"
                    /\ StatusOf(f).accessInstructions.portForward =
                          "kubectl port-forward service/" \o StatusOf(f).serviceName
                              \o " 8888:8888 -n " \o f.namespace
              /\ ( f.pc = "done" /\ ReturnedStatus(f) /\ StatusOf(f).phase = "Running" )
                 => Len(f.calls) = 2 /\ f.calls[2].outcome.tag = "ok"

C3_Witness ==
    \E w \in Workers :
        /\ frames[w].handler = "create"
        /\ frames[w].pc = "done"
        /\ Len(frames[w].calls) = 2
        /\ frames[w].calls[2].outcome.tag = "ok"
        /\ frames[w].namespace = "team"

\* C4: non-transactional partial failure.  When the service creation fails
\* with an ApiException after the deployment creation succeeded, the create
\* has returned phase Failed with message "Failed to create resources", has
\* issued no delete call, and the deployment it created is in the store.
C4_PartialFailureKeepsWorkload ==
    \A w \in Workers :
        LET f == frames[w]
        IN  ( /\ f.handler = "create"
              /\ Len(f.calls) >= 2
              /\ f.calls[1].outcome.tag = "ok"
              /\ f.calls[2].op = "create_namespaced_service"
              /\ f.calls[2].outcome.tag = "ApiException" )
            => /\ f.pc = "done"
               /\ ReturnedStatus(f)
               /\ StatusOf(f).phase = "Failed"
               /\ StatusOf(f).message = "Failed to create resources"
               /\ Len(f.calls) = 2
               /\ CallCount(f, "delete_namespaced_deployment") = 0
               /\ CallCount(f, "delete_namespaced_service") = 0
               /\ << f.namespace, "jupyter-" \o f.name >> \in DOMAIN deployments
               /\ deployments[<< f.namespace, "jupyter-" \o f.name >>] = f.calls[1].body[1]

C4_Witness ==
    \E w \in Workers :
        /\ frames[w].handler = "create"
        /\ frames[w].pc = "done"
        /\ Len(frames[w].calls) = 2
        /\ frames[w].calls[2].outcome \in
              { ApiException(BadRequest), ApiException(Conflict) }
        /\ << frames[w].namespace, "jupyter-" \o frames[w].name >> \in DOMAIN deployments
        /\ << frames[w].namespace, "jupyter-" \o frames[w].name \o "-service" >>
              \notin DOMAIN services

\* C5: no-op detection on update.  An update whose old and new specs are
\* equal has returned None without any call to the store, whether or not
\* the payload would pass validation, and the step that handles it leaves
\* the store as it was.
C5_UpdateNoChange ==
    /\ [] \A w \in Workers :
            LET f == frames[w]
            IN  ( f.handler = "update" /\ ~SpecsDiffer(f) )
                => /\ f.pc = "done"
                   /\ f.calls = << >>
                   /\ ReturnedNone(f)
    /\ [][ \A w \in Workers :
             ( /\ frames[w].pc = "idle"
               /\ frames'[w].handler = "update"
               /\ ~SpecsDiffer(frames'[w]) )
             => /\ frames'[w].pc = "done"
                /\ UNCHANGED << deployments, services >> ]_vars

C5_Witness ==
    \E w \in Workers :
        /\ frames[w].handler = "update"
        /\ frames[w].pc = "done"
        /\ ~SpecsDiffer(frames[w])
        /\ InvalidPayload(frames[w].spec)
        /\ "spec" \in DOMAIN frames[w].new
        /\ deployments # << >>

\* C6: update touches the workload only.  An update with differing specs and
\* a valid new spec issues one call, a patch of the deployment
\* "jupyter-" + name in the event's namespace, and on success returns phase
\* Running with deploymentName "jupyter-" + name and serviceName
\* "jupyter-" + name + "-service".
C6_UpdatePatchesWorkloadOnly ==
    \A w \in Workers :
        LET f == frames[w]
        IN  ( f.handler = "update" /\ SpecsDiffer(f) /\ ~InvalidPayload(f.spec) )
            => /\ \A i \in DOMAIN f.calls :
                    /\ f.calls[i].api = "apps_v1"
                    /\ f.calls[i].op = "patch_namespaced_deployment"
                    /\ f.calls[i].name = "jupyter-" \o f.name
                    /\ f.calls[i].namespace = f.namespace
               /\ f.pc = "patch_deployment" => f.calls = << >>
               /\ f.pc = "done" => Len(f.calls) = 1
               /\ f.pc \in {"patch_deployment", "done"}
               /\ ( f.pc = "done" /\ f.calls[1].outcome.tag = "ok" )
                  => /\ ReturnedStatus(f)
                     /\ StatusOf(f).phase = "Running"
                     /\ StatusOf(f).deploymentName = "jupyter-" \o f.name
                     /\ StatusOf(f).serviceName = "jupyter-" \o f.name \o "-service"

C6_Witness ==
    \E w \in Workers :
        /\ frames[w].handler = "update"
        /\ frames[w].pc = "done"
        /\ SpecsDiffer(frames[w])
        /\ Len(frames[w].calls) = 1
        /\ frames[w].calls[1].outcome.tag = "ok"
        /\ frames[w].calls[1].outcome.metadata # None
        /\ frames[w].calls[1].outcome.metadata[1].name # "jupyter-" \o frames[w].name
        /\ << frames[w].namespace, "jupyter-" \o frames[w].name \o "-service" >>
              \in DOMAIN services

ApiErrorsOtherThanNotFound(f) ==
    { i \in Failures(f, "ApiException") : f.calls[i].outcome.status # NotFound }

\* C7 as claimed: in every delete invocation the service deletion is attempted
\* exactly once whatever the outcome of the deployment deletion, and every
\* error other than not-found is recorded as a warning.
C7_ServiceDeletionAlwaysAttempted ==
    \A w \in Workers :
        LET f == frames[w]
        IN  ( f.handler = "delete" /\ f.pc = "done" )
            => /\ CallCount(f, "delete_namespaced_service") = 1
               /\ LogCount(f, "warning") =
                     Cardinality({ i \in DOMAIN f.calls :
                                      /\ f.calls[i].outcome.tag # "ok"
                                      /\ f.calls[i].outcome # ApiException(NotFound) })

\* C7 as amended: the deployment deletion is the first call and is made once;
\* when it returns or fails with an ApiException (not-found or any other
\* status) the service deletion is attempted exactly once, and every
\* ApiException other than not-found, on either call, is one warning.  When
\* the deployment deletion raises an exception that is no ApiException the
\* invocation ends there and the service deletion is not attempted.
C7_DeleteIsolationOnApiErrors ==
    \A w \in Workers :
        LET f == frames[w]
        IN  f.handler = "delete" =>
              /\ f.pc = "delete_deployment" => f.calls = << >>
              /\ f.pc = "delete_service" =>
                    Len(f.calls) = 1 /\ f.calls[1].outcome.tag # "Exception"
              /\ f.pc = "done" =>
                    /\ CallCount(f, "delete_namespaced_deployment") = 1
                    /\ f.calls[1].op = "delete_namespaced_deployment"
                    /\ f.calls[1].outcome.tag \in {"ok", "ApiException"}
                          => /\ CallCount(f, "delete_namespaced_service") = 1
                             /\ Len(f.calls) = 2
                    /\ f.calls[1].outcome.tag = "Exception"
                          => CallCount(f, "delete_namespaced_service") = 0
              /\ LogCount(f, "warning") = Cardinality(ApiErrorsOtherThanNotFound(f))

C7_Witness ==
    \E w \in Workers :
        /\ frames[w].handler = "delete"
        /\ frames[w].pc = "done"
        /\ Len(frames[w].calls) = 2
        /\ frames[w].calls[1].outcome = ApiException(InternalServerError)
        /\ frames[w].calls[2].outcome.tag = "ok"
        /\ << frames[w].namespace, "jupyter-" \o frames[w].name >> \in DOMAIN deployments

\* C8: the delete handler never raises and never returns a status: whatever
\* the two delete calls answer (an object, not-found, another ApiException,
\* an exception that is no ApiException) it returns None.
C8_DeleteNeverPropagates ==
    \A w \in Workers :
        LET f == frames[w]
        IN  f.handler = "delete" =>
              /\ f.result.kind # "raise"
              /\ f.pc = "done" => ReturnedNone(f)
              /\ f.pc # "done" => f.result = Pending

C8_Witness ==
    \E w \in Workers :
        /\ frames[w].handler = "delete"
        /\ frames[w].pc = "done"
        /\ Len(frames[w].calls) = 2
        /\ frames[w].calls[1].outcome = ApiException(BadRequest)
        /\ frames[w].calls[2].outcome.tag = "Exception"

CleanDelete(f) ==
    \A i \in DOMAIN f.calls :
        f.calls[i].outcome.tag = "ok" \/ f.calls[i].outcome = ApiException(NotFound)

\* C9: delete is idempotent.  A delete whose calls were answered with an
\* object or with not-found logs no warning and no error, returns None and
\* leaves neither child of that name in the store; a delete that follows such
\* a delete of the same name finds both children absent and does the same.
C9_DeleteIdempotent ==
    \A w \in Workers :
        LET f == frames[w]
            dep == << f.namespace, "jupyter-" \o f.name >>
            svc == << f.namespace, "jupyter-" \o f.name \o "-service" >>
        IN  ( f.handler = "delete" /\ f.pc = "done" /\ CleanDelete(f) )
            => /\ LogCount(f, "warning") = 0
               /\ LogCount(f, "error") = 0
               /\ ReturnedNone(f)
               /\ Len(f.calls) = 2
               /\ dep \notin DOMAIN deployments
               /\ svc \notin DOMAIN services
               /\ ( /\ f.prev.handler = "delete"
                    /\ f.prev.name = f.name
                    /\ f.prev.namespace = f.namespace )
                  => \A i \in DOMAIN f.calls :
                        f.calls[i].outcome = ApiException(NotFound)

C9_Witness ==
    \E w \in Workers :
        LET f == frames[w]
        IN  /\ f.handler = "delete"
            /\ f.pc = "done"
            /\ f.prev.handler = "delete"
            /\ f.prev.name = f.name
            /\ f.prev.namespace = f.namespace
            /\ Len(f.calls) = 2
            /\ \A i \in DOMAIN f.calls : f.calls[i].outcome = ApiException(NotFound)
            /\ deployments # << >>

\* C10 as claimed: every ApiException met by a create or an update is
\* surfaced as a status with phase Failed that carries the raw error and a
\* message.
C10_ApiErrorSurfacedWithMessage ==
    \A w \in Workers :
        LET f == frames[w]
        IN  ( /\ f.handler \in {"create", "update"}
              /\ f.pc = "done"
              /\ Failures(f, "ApiException") # {} )
            => /\ ReturnedStatus(f)
               /\ StatusOf(f).phase = "Failed"
               /\ "error" \in DOMAIN StatusOf(f)
               /\ "message" \in DOMAIN StatusOf(f)

\* C11: status shape.  Every status returned by the create or the update
\* handler has phase Running or Failed, and every status with phase Running
\* carries deploymentName, serviceName and accessInstructions.
C11_RunningCarriesAccessInstructions ==
    \A w \in Workers :
        LET f == frames[w]
        IN  ( f.handler \in {"create", "update"} /\ f.pc = "done" /\ ReturnedStatus(f) )
            => /\ StatusOf(f).phase \in {"Running", "Failed"}
               /\ StatusOf(f).phase = "Running"
                  => {"deploymentName", "serviceName", "accessInstructions"}
                        \subseteq DOMAIN StatusOf(f)

\* The spec payloads the validator accepts.
ValidPayloads == { p \in SpecPayloads : ~InvalidPayload(p) }

\* C12: deterministic naming.  For every resource name and every valid spec
\* the deployment descriptor is named "jupyter-" + name and the service
\* descriptor "jupyter-" + name + "-service", name being the resource name of
\* the event and not the spec's name field; every create submits descriptors
\* so named, the patch of an update and the two deletions of a delete target
\* the same names in the event's namespace.
C12_DeterministicNaming ==
    /\ \A t \in Targets, p \in ValidPayloads :
          /\ create_jupyter_deployment(t[1], t[2], JupyterServerSpec(p)).metadata.name
                = "jupyter-" \o t[1]
          /\ create_jupyter_service(t[1], t[2]).metadata.name
                = "jupyter-" \o t[1] \o "-service"
          /\ p.name.val # t[1]
    /\ \A w \in Workers :
          LET f == frames[w]
          IN  \A i \in DOMAIN f.calls :
                LET c == f.calls[i]
                    workload == "jupyter-" \o f.name
                    service == "jupyter-" \o f.name \o "-service"
                IN  /\ c.namespace = f.namespace
                    /\ c.op = "create_namespaced_deployment"
                       => c.name = workload /\ c.body[1].metadata.name = workload
                    /\ c.op = "create_namespaced_service"
                       => c.name = service /\ c.body[1].metadata.name = service
                    /\ c.op = "patch_namespaced_deployment"
                       => c.name = workload /\ c.body[1].metadata.name = workload
                    /\ c.op = "delete_namespaced_deployment" => c.name = workload
                    /\ c.op = "delete_namespaced_service" => c.name = service
                    /\ c.body # None => c.body[1].metadata.namespace = f.namespace

C12_Witness ==
    \E w \in Workers :
        /\ frames[w].handler = "update"
        /\ frames[w].spec = FullSpec
        /\ frames[w].name = "nb2"
        /\ Len(frames[w].calls) = 1
        /\ frames[w].calls[1].op = "patch_namespaced_deployment"
        /\ frames[w].calls[1].outcome.tag = "ok"
        /\ << "team", "jupyter-nb2-service" >> \in DOMAIN services

\* C13: a successful create reports the derived names.  Whatever names the
\* store's create responses carry, the Running status of a create has
\* deploymentName "jupyter-" + name and serviceName "jupyter-" + name + "-service".
C13_StatusReportsDerivedNames ==
    \A w \in Workers :
        LET f == frames[w]
        IN  ( /\ f.handler = "create"
              /\ f.pc = "done"
              /\ ReturnedStatus(f)
              /\ StatusOf(f).phase = "Running" )
            => /\ StatusOf(f).deploymentName = "jupyter-" \o f.name
               /\ StatusOf(f).serviceName = "jupyter-" \o f.name \o "-service"

\* The labels every child of the resource called name is to carry.
LockStepLabels(name) == [app |-> "jupyter-server", instance |-> name]

\* C14: label lock-step.  For every resource name the pod-template labels and
\* the selector labels of the deployment descriptor and the selector of the
\* service descriptor are {app: "jupyter-server", instance: name}, and so are
\* those of the deployment and the service the store holds for that name,
\* after any sequence of events.
C14_LabelLockStep ==
    /\ \A t \in Targets, p \in ValidPayloads :
          LET d == create_jupyter_deployment(t[1], t[2], JupyterServerSpec(p))
              s == create_jupyter_service(t[1], t[2])
          IN  /\ d.spec.template.metadata.labels = LockStepLabels(t[1])
              /\ d.spec.selector.match_labels = LockStepLabels(t[1])
              /\ s.spec.selector = LockStepLabels(t[1])
    /\ \A t \in Targets :
          LET dk == << t[2], "jupyter-" \o t[1] >>
              sk == << t[2], "jupyter-" \o t[1] \o "-service" >>
          IN  /\ dk \in DOMAIN deployments
                 => /\ deployments[dk].spec.template.metadata.labels = LockStepLabels(t[1])
                    /\ deployments[dk].spec.selector.match_labels = LockStepLabels(t[1])
              /\ sk \in DOMAIN services
                 => services[sk].spec.selector = LockStepLabels(t[1])
    /\ DOMAIN deployments \subseteq { << t[2], "jupyter-" \o t[1] >> : t \in Targets }
    /\ DOMAIN services \subseteq
          { << t[2], "jupyter-" \o t[1] \o "-service" >> : t \in Targets }

C14_Witness ==
    \E w \in Workers :
        /\ frames[w].handler = "update"
        /\ frames[w].name = "nb1"
        /\ frames[w].pc = "done"
        /\ Len(frames[w].calls) = 1
        /\ frames[w].calls[1].outcome.tag = "ok"
        /\ << "default", "jupyter-nb1-service" >> \in DOMAIN services
        /\ deployments[<< "default", "jupyter-nb1" >>].spec.template.spec.containers[1].image
              = "img:b"

\* The status a redelivered create was preceded by.
PreviousStatus(f) == f.prev.result.value[1].status
RedeliveredAfterRunning(f) ==
    /\ f.handler = "create"
    /\ f.prev.handler = "create"
    /\ f.prev.result.kind = "return"
    /\ f.prev.result.value # None
    /\ PreviousStatus(f).phase = "Running"

\* C15: create is safe to re-run.  Against a store that answers the creation
\* of an existing name with a conflict, the create event redelivered after a
\* create that returned Running returns Running again with the same names and
\* leaves the store as it was.
C15_RedeliveredCreateReturnsRunning ==
    \A w \in Workers :
        LET f == frames[w]
        IN  ( /\ RedeliveredAfterRunning(f)
              /\ f.pc = "done"
              /\ \A i \in DOMAIN f.calls : Regular(f.calls[i].outcome) )
            => /\ ReturnedStatus(f)
               /\ StatusOf(f).phase = "Running"
               /\ StatusOf(f).deploymentName = PreviousStatus(f).deploymentName
               /\ StatusOf(f).serviceName = PreviousStatus(f).serviceName
               /\ deployments = f.prev.deployments
               /\ services = f.prev.services

\* A create has ended with the deployment created and the service creation failed.
Orphaned ==
    \E w \in Workers :
        /\ frames[w].handler = "create"
        /\ frames[w].pc = "done"
        /\ Len(frames[w].calls) = 2
        /\ frames[w].calls[1].outcome.tag = "ok"
        /\ frames[w].calls[2].outcome.tag # "ok"
        /\ << frames[w].namespace, "jupyter-" \o frames[w].name >> \in DOMAIN deployments
        /\ << frames[w].namespace, "jupyter-" \o frames[w].name \o "-service" >>
              \notin DOMAIN services

\* A create has returned Running with both children of its name in the store.
Healed ==
    \E w \in Workers :
        /\ frames[w].handler = "create"
        /\ frames[w].pc = "done"
        /\ ReturnedStatus(frames[w])
        /\ StatusOf(frames[w]).phase = "Running"
        /\ << frames[w].namespace, "jupyter-" \o frames[w].name >> \in DOMAIN deployments
        /\ << frames[w].namespace, "jupyter-" \o frames[w].name \o "-service" >>
              \in DOMAIN services

\* C16: retry-to-heal.  After a create that created the deployment and failed
\* to create the service, with the same create event redelivered again and
\* again and the store answering regularly, eventually the deployment and
\* the service of that name are both in the store and a create returns Running.
C16_RetryToHeal == Orphaned ~> Healed

\* The validator rejected the payload of a create: Failed, "Invalid spec", no call.
Rejected(f) ==
    /\ f.pc = "done"
    /\ f.calls = << >>
    /\ ReturnedStatus(f)
    /\ StatusOf(f).phase = "Failed"
    /\ StatusOf(f).message = "Invalid spec"
Accepted(f) == ~Rejected(f)

HasString(p, k) == k \in DOMAIN p /\ p[k].type = "str"

ServiceFor(name, namespace) ==
    [api_version |-> "v1",
     kind |-> "Service",
     metadata |-> [name |-> "jupyter-" \o name \o "-service",
                   namespace |-> namespace,
                   labels |-> [app |-> "jupyter-server", instance |-> name]],
     spec |-> [selector |-> [app |-> "jupyter-server", instance |-> name],
               ports |-> << [port |-> 8888, target_port |-> 8888, name |-> "jupyter"] >>,
               type |-> "ClusterIP"]]

\* C18: the service is independent of the spec.  The service descriptor a
\* create submits is determined by the resource name and the namespace of the
\* event alone: whatever valid spec the event carries (image, resources,
\* desiredStatus, serviceAccountName, the spec's name), the body of
\* create_namespaced_service is the same, and so is the service stored.
C18_ServiceIndependentOfSpec ==
    \A w \in Workers :
        LET f == frames[w]
        IN  /\ \A i \in DOMAIN f.calls :
                 f.calls[i].op = "create_namespaced_service"
                 => f.calls[i].body = Some(ServiceFor(f.name, f.namespace))
            /\ ( /\ f.handler = "create"
                 /\ f.pc = "done"
                 /\ Len(f.calls) = 2
                 /\ f.calls[2].outcome.tag = "ok" )
               => services[<< f.namespace, "jupyter-" \o f.name \o "-service" >>]
                     = ServiceFor(f.name, f.namespace)

C18_Witness ==
    \E w \in Workers :
        /\ frames[w].handler = "create"
        /\ frames[w].spec = FullSpec
        /\ frames[w].pc = "done"
        /\ Len(frames[w].calls) = 2
        /\ frames[w].calls[2].outcome.tag = "ok"
        /\ frames[w].prev.handler = "delete"
        /\ frames[w].prev.name = frames[w].name

\* The request served last and the notebook the API always describes.
LastRequest == http.requests[Len(http.requests)]
OnNotebook(method) ==
    /\ http.requests # << >>
    /\ LastRequest.method = method
    /\ LastRequest.path = "/notebooks/{name}"
IsSample(notebook) ==
    /\ notebook.name = "sample-notebook"
    /\ notebook.namespace = "default"
    /\ notebook.status = "Running"
    /\ notebook.image = "jupyter/minimal-notebook:latest"

\* C19: the HTTP API holds no state.  After any sequence of requests, a GET
\* or a DELETE on /notebooks/{name} is answered 404 "Notebook not found"
\* exactly when name is not "sample-notebook" (otherwise 200 with the sample
\* notebook, 204 for the DELETE), and GET /notebooks answers the list holding
\* the sample notebook alone.
C19_ApiHoldsNoState ==
    /\ ( OnNotebook("GET") \/ OnNotebook("DELETE") )
       => /\ http.response.status_code = 404 <=> LastRequest.name # "sample-notebook"
          /\ http.response.status_code = 404
             => http.response.body = [detail |-> "Notebook not found"]
    /\ ( OnNotebook("GET") /\ LastRequest.name = "sample-notebook" )
       => http.response.status_code = 200 /\ IsSample(http.response.body)
    /\ ( OnNotebook("DELETE") /\ LastRequest.name = "sample-notebook" )
       => http.response.status_code = 204
    /\ ( /\ http.requests # << >>
         /\ LastRequest.method = "GET"
         /\ LastRequest.path = "/notebooks" )
       => /\ http.response.status_code = 200
          /\ Len(http.response.body) = 1
          /\ IsSample(http.response.body[1])

C19_Witness ==
    /\ Len(http.requests) = 3
    /\ http.requests[1].method = "POST" /\ http.requests[1].name = "new-notebook"
    /\ http.requests[2].method = "DELETE" /\ http.requests[2].name = "sample-notebook"
    /\ http.requests[3].method = "GET"
    /\ http.requests[3].path = "/notebooks/{name}"
    /\ http.requests[3].name \in {"new-notebook", "sample-notebook"}

\* The store operations a handler may issue.
OperationsOf(handler) ==
    CASE handler = "create" ->
            {"create_namespaced_deployment", "create_namespaced_service"}
      [] handler = "update" -> {"patch_namespaced_deployment"}
      [] handler = "delete" ->
            {"delete_namespaced_deployment", "delete_namespaced_service"}
      [] OTHER -> {}

\* C20: no internal retry.  Within one invocation every store operation is
\* issued at most once, whatever the store answers: a create issues at most
\* one deployment creation and one service creation, an update at most one
\* deployment patch, a delete at most one deployment deletion and one service
\* deletion, and no handler issues any other operation.
C20_NoInternalRetry ==
    \A w \in Workers :
        LET f == frames[w]
        IN  /\ \A i \in DOMAIN f.calls : f.calls[i].op \in OperationsOf(f.handler)
            /\ \A i, j \in DOMAIN f.calls : f.calls[i].op = f.calls[j].op => i = j

C20_Witness ==
    \E w \in Workers :
        /\ frames[w].handler = "create"
        /\ frames[w].pc = "done"
        /\ Len(frames[w].calls) = 1
        /\ frames[w].calls[1].outcome = ApiException(InternalServerError)
        /\ deployments = << >>

(***************************************************************************)
(* Properties of handlers that run concurrently.                           *)
(***************************************************************************)
\* Every call of the invocation got the answer of a store that fails only
\* with not-found or conflict.
RegularRun(f) == \A i \in DOMAIN f.calls : Regular(f.calls[i].outcome)

DeploymentKey(f) == << f.namespace, "jupyter-" \o f.name >>
ServiceKey(f) == << f.namespace, "jupyter-" \o f.name \o "-service" >>

\* A create and a delete for the same name and namespace have both returned.
CreateAndDeleteReturned(c, d) ==
    /\ frames[c].handler = "create"
    /\ frames[d].handler = "delete"
    /\ frames[c].name = frames[d].name
    /\ frames[c].namespace = frames[d].namespace
    /\ frames[c].pc = "done"
    /\ frames[d].pc = "done"
    /\ RegularRun(frames[c])
    /\ RegularRun(frames[d])

\* The invocation made the call op and the store answered it with outcome.
Answered(f, op, outcome) ==
    \E i \in DOMAIN f.calls : f.calls[i].op = op /\ f.calls[i].outcome = outcome
Created(f, op) ==
    \E i \in DOMAIN f.calls : f.calls[i].op = op /\ f.calls[i].outcome.tag = "ok"

\* C21 as stated: same-name concurrency.  Once a create and a delete for the
\* same name, run concurrently against a store that fails only with not-found
\* or conflict, have both returned, the store holds both children of that
\* name or neither.
C21_BothChildrenOrNeither ==
    \A c, d \in DOMAIN frames :
        CreateAndDeleteReturned(c, d)
        => ( DeploymentKey(frames[c]) \in DOMAIN deployments
             <=> ServiceKey(frames[c]) \in DOMAIN services )

\* C21: same-name concurrency, from a store that holds neither child.  Once
\* the create and the delete have both returned, the deployment is in the
\* store exactly when the create created it and the delete's deployment
\* deletion was answered not-found, and the service exactly when the create
\* created it and the delete's service deletion was answered not-found.
C21_ChildrenLeftByCreateAndDelete ==
    \A c, d \in DOMAIN frames :
        CreateAndDeleteReturned(c, d)
        => /\ DeploymentKey(frames[c]) \in DOMAIN deployments
              <=> /\ Created(frames[c], "create_namespaced_deployment")
                  /\ Answered(frames[d], "delete_namespaced_deployment",
                              ApiException(NotFound))
           /\ ServiceKey(frames[c]) \in DOMAIN services
              <=> /\ Created(frames[c], "create_namespaced_service")
                  /\ Answered(frames[d], "delete_namespaced_service",
                              ApiException(NotFound))

\* The create and the delete have returned and left the service without its deployment.
C21_Witness ==
    \E c, d \in DOMAIN frames :
        /\ CreateAndDeleteReturned(c, d)
        /\ DeploymentKey(frames[c]) \notin DOMAIN deployments
        /\ ServiceKey(frames[c]) \in DOMAIN services

\* Two creates for the same name and namespace have both returned.
TwoCreatesReturned(a, b) ==
    /\ a # b
    /\ frames[a].handler = "create"
    /\ frames[b].handler = "create"
    /\ frames[a].name = frames[b].name
    /\ frames[a].namespace = frames[b].namespace
    /\ frames[a].pc = "done"
    /\ frames[b].pc = "done"
    /\ RegularRun(frames[a])
    /\ RegularRun(frames[b])

ReturnedPhase(f, phase) == ReturnedStatus(f) /\ StatusOf(f).phase = phase

\* C22: two concurrent creates for the same name and namespace, against a
\* store that rejects a duplicate name with a conflict.  Under every
\* interleaving at most one of them returns Running; the other returns Failed
\* with "Failed to create resources" after a conflict on the deployment and
\* has submitted no service; while they run no invocation ever gets a second
\* deployment or a second service of that name created, and what the store
\* holds is the descriptor of the create that succeeded.
C22_ConcurrentCreates ==
    /\ \A a, b \in DOMAIN frames :
          TwoCreatesReturned(a, b)
          => /\ ~( ReturnedPhase(frames[a], "Running") /\ ReturnedPhase(frames[b], "Running") )
             /\ ReturnedPhase(frames[a], "Running")
                => /\ ReturnedPhase(frames[b], "Failed")
                   /\ StatusOf(frames[b]).message = "Failed to create resources"
                   /\ StatusOf(frames[b]).error = ApiException(Conflict)
                   /\ CallCount(frames[b], "create_namespaced_service") = 0
                   /\ deployments[DeploymentKey(frames[a])] = frames[a].calls[1].body[1]
                   /\ services[ServiceKey(frames[a])] = frames[a].calls[2].body[1]
    /\ \A a, b \in DOMAIN frames :
          ( /\ a # b
            /\ frames[a].handler = "create"
            /\ frames[b].handler = "create"
            /\ frames[a].name = frames[b].name
            /\ frames[a].namespace = frames[b].namespace )
          => /\ ~( Created(frames[a], "create_namespaced_deployment")
                   /\ Created(frames[b], "create_namespaced_deployment") )
             /\ ~( Created(frames[a], "create_namespaced_service")
                   /\ Created(frames[b], "create_namespaced_service") )

C22_Witness ==
    \E a, b \in DOMAIN frames :
        /\ TwoCreatesReturned(a, b)
        /\ frames[a].spec # frames[b].spec
        /\ ReturnedPhase(frames[a], "Running")
        /\ ReturnedPhase(frames[b], "Failed")

\* The keys at which a collection differs before and after a step.
ChangedKeys(before, after) ==
    { k \in DOMAIN before \cup DOMAIN after :
        \/ k \notin DOMAIN before
        \/ k \notin DOMAIN after
        \/ before[k] # after[k] }

\* C23: isolation between resources.  Every store call of a handler invoked
\* for (name, namespace) is made in that namespace, on the deployment
\* "jupyter-" + name or on the service "jupyter-" + name + "-service"; and a
\* step changes the store at most at the deployment or the service of the
\* handler that takes it, so handlers for different names or namespaces,
\* interleaved in any order, never create, patch or delete each other's children.
C23_IsolationBetweenResources ==
    /\ [] \A w \in DOMAIN frames :
            \A i \in DOMAIN frames[w].calls :
                LET c == frames[w].calls[i]
                IN  /\ c.namespace = frames[w].namespace
                    /\ c.api = "apps_v1" => c.name = "jupyter-" \o frames[w].name
                    /\ c.api = "core_v1"
                       => c.name = "jupyter-" \o frames[w].name \o "-service"
    /\ [][ /\ \A k \in ChangedKeys(deployments, deployments') :
                \E w \in DOMAIN frames :
                    frames'[w] # frames[w] /\ k = DeploymentKey(frames[w])
           /\ \A k \in ChangedKeys(services, services') :
                \E w \in DOMAIN frames :
                    frames'[w] # frames[w] /\ k = ServiceKey(frames[w]) ]_vars

\* Two handlers for different resources have run interleaved: one has created
\* its pair while the other made two calls for its own, and the pair is in the store.
C23_Witness ==
    \E a, b \in DOMAIN frames :
        /\ frames[a].name # frames[b].name
        /\ frames[a].handler = "create"
        /\ frames[b].handler \in {"create", "delete"}
        /\ frames[a].pc = "done"
        /\ frames[b].pc = "done"
        /\ ReturnedPhase(frames[a], "Running")
        /\ Len(frames[b].calls) = 2
        /\ DeploymentKey(frames[a]) \in DOMAIN deployments
        /\ ServiceKey(frames[a]) \in DOMAIN services

\* A delete that follows a create of the same resource that returned Running.
DeleteAfterRunningCreate(f) ==
    /\ f.handler = "delete"
    /\ f.prev.handler = "create"
    /\ f.prev.name = f.name
    /\ f.prev.namespace = f.namespace
    /\ f.prev.result.kind = "return"
    /\ f.prev.result.value # None
    /\ f.prev.result.value[1].status.phase = "Running"

\* C24: create followed by delete is a round trip.  With handlers run one at
\* a time and no store errors, after a create for (name, namespace) that
\* returned Running and a delete for the same (name, namespace), the
\* deployment and the service that create left in the store are both gone,
\* each removed by its deletion call.
C24_CreateDeleteRoundTrip ==
    \A w \in Workers :
        LET f == frames[w]
        IN  ( DeleteAfterRunningCreate(f) /\ f.pc = "done" /\ RegularRun(f) )
            => /\ DeploymentKey(f) \in DOMAIN f.prev.deployments
               /\ ServiceKey(f) \in DOMAIN f.prev.services
               /\ DeploymentKey(f) \notin DOMAIN deployments
               /\ ServiceKey(f) \notin DOMAIN services
               /\ Answered(f, "delete_namespaced_deployment", Ok(None))
               /\ Answered(f, "delete_namespaced_service", Ok(None))
               /\ ReturnedNone(f)

C24_Witness ==
    \E w \in Workers :
        /\ DeleteAfterRunningCreate(frames[w])
        /\ frames[w].pc = "done"
        /\ RegularRun(frames[w])
        /\ Len(frames[w].calls) = 2
        /\ frames[w].name = "nb2"

\* The call an invocation made last.
LastCall(f) == f.calls[Len(f.calls)]

\* C25: update never creates a missing child.  The update handler issues no
\* call but the deployment patch; a patch answered with an ApiException ends
\* the update with phase Failed; and no step of an update adds a deployment
\* or a service to the store or removes one, the services stay as they are,
\* and a patch that is not answered with success leaves the deployments as
\* they are.  So a child that is absent stays absent over any sequence of updates.
C25_UpdateNeverCreates ==
    /\ [] \A w \in Workers :
            LET f == frames[w]
            IN  f.handler = "update"
                => /\ \A i \in DOMAIN f.calls :
                         f.calls[i].op = "patch_namespaced_deployment"
                   /\ ( f.calls # << >> /\ LastCall(f).outcome.tag = "ApiException" )
                      => /\ f.pc = "done"
                         /\ ReturnedPhase(f, "Failed")
                         /\ StatusOf(f).error = LastCall(f).outcome
    /\ [][ \A w \in Workers :
             ( frames'[w] # frames[w] /\ frames'[w].handler = "update" )
             => /\ DOMAIN deployments' = DOMAIN deployments
                /\ services' = services
                /\ ( frames'[w].calls = << >>
                     \/ LastCall(frames'[w]).outcome.tag # "ok" )
                   => deployments' = deployments ]_vars

\* An update of a resource whose deployment is missing while its service is
\* there has been rejected by the store.
C25_Witness ==
    \E w \in Workers :
        /\ frames[w].handler = "update"
        /\ frames[w].pc = "done"
        /\ Len(frames[w].calls) = 1
        /\ frames[w].calls[1].outcome = ApiException(NotFound)
        /\ ReturnedPhase(frames[w], "Failed")
        /\ DeploymentKey(frames[w]) \notin DOMAIN deployments
        /\ ServiceKey(frames[w]) \in DOMAIN services

\* The fields of a spec the reconciliation reads, and a payload reduced to
\* them (with a name of its own, which is required).
UsedFields == {"image", "resources"}
Reduced(p) ==
    [k \in (DOMAIN p \cap UsedFields) \cup {"name"} |->
        IF k = "name" THEN Str("reduced") ELSE p[k]]

\* The create of frame f run again on the reduced payload, the store giving
\* the answers it gave to f: after no call, after one and after two.
Rerun0(f) ==
    handle_create_notebook(
        Invoke(IdleFrame, "create", Reduced(f.spec), f.name, f.namespace,
               NoSpecBody, NoSpecBody))
Rerun1(f) ==
    LET g == Rerun0(f)
        body == create_jupyter_deployment(g.name, g.namespace, JupyterServerSpec(g.spec))
        o == f.calls[1].outcome
    IN  after_create_deployment(
            Called(g, "apps_v1", "create_namespaced_deployment",
                   body.metadata.name, g.namespace, Some(body), o), o)
Rerun2(f) ==
    LET g == Rerun1(f)
        body == create_jupyter_service(g.name, g.namespace)
        o == f.calls[2].outcome
    IN  after_create_service(
            Called(g, "core_v1", "create_namespaced_service",
                   body.metadata.name, g.namespace, Some(body), o), o)
Rerun(f) ==
    CASE Len(f.calls) = 0 -> Rerun0(f)
      [] Len(f.calls) = 1 -> Rerun1(f)
      [] OTHER -> Rerun2(f)

\* Two payloads the validator accepts that differ at most in desiredStatus,
\* serviceAccountName and name give the same two descriptors.
AcceptedPayloads == { p \in ValidationPayloads : SpecErrors(p) = {} }
UnusedFieldsLeaveDescriptors ==
    \A p, q \in AcceptedPayloads :
        Reduced(p) = Reduced(q)
        => \A t \in Targets :
              create_jupyter_deployment(t[1], t[2], JupyterServerSpec(p))
                 = create_jupyter_deployment(t[1], t[2], JupyterServerSpec(q))

\* C26: unused spec fields do not influence reconciliation.  Valid specs
\* that differ only in desiredStatus, serviceAccountName or the spec's name
\* give the same deployment and service descriptors, and a create makes the
\* same calls with the same bodies and ends in the same state with the same
\* status as the create of the spec reduced to image and resources, given
\* the same answers of the store.
C26_UnusedFieldsHaveNoInfluence ==
    /\ UnusedFieldsLeaveDescriptors
    /\ \A w \in Workers :
          LET f == frames[w]
          IN  ( f.handler = "create" /\ SpecErrors(f.spec) = {} )
              => /\ f.calls = Rerun(f).calls
                 /\ f.result = Rerun(f).result
                 /\ f.pc = Rerun(f).pc
                 /\ f.log = Rerun(f).log

C26_Witness ==
    \E w \in Workers :
        /\ frames[w].handler = "create"
        /\ frames[w].pc = "done"
        /\ ReturnedPhase(frames[w], "Running")
        /\ frames[w].spec.name = Str("other")
        /\ "desiredStatus" \in DOMAIN frames[w].spec
        /\ frames[w].spec.desiredStatus = Str("Stopped")
        /\ "serviceAccountName" \in DOMAIN frames[w].spec
        /\ frames[w].spec.serviceAccountName = Str("default")
        /\ "resources" \in DOMAIN frames[w].spec
        /\ frames[w].spec.resources.type = "dict"

====
